---- MODULE Spec2Model ----
(***************************************************************************)
(* A model of instagram-border-tool.py: the colour parser parse_color, the *)
(* compositor add_borders (with resize_for_preview), the two entry points  *)
(* process_preview (with its 100 ms gate) and process_download, and the    *)
(* wiring of the three input widgets and the two buttons to them.          *)
(*                                                                         *)
(* Conventions.                                                            *)
(*  - A Python str is Str(<<c1, ..., cn>>), a tuple of one-character       *)
(*    strings; Python's None is the record None.  Every Python value a     *)
(*    variable can hold is a record with a "kind" field.                   *)
(*  - time.time() is read from the variable clock, in whole milliseconds.  *)
(*  - An image is a term recording how PIL built it (fromarray, new,       *)
(*    paste, resize); getpixel gives the pixel such a term holds.          *)
(***************************************************************************)
EXTENDS Integers, Sequences, FiniteSets, TLC

VARIABLES
    input_image,        \* gr.Image "Upload Image": an ndarray or None
    color_picker,       \* gr.ColorPicker: a str or None
    aspect_ratio,       \* gr.Radio: a label
    preview,            \* gr.Image "Preview": the image shown, or None
    download,           \* gr.File: the path offered, or None
    last_update_time,   \* the module global of line 97, in ms
    clock,              \* what time.time() returns now, in ms
    temp_file,          \* the content of <tempdir>/processed_image.jpg
    ret                 \* the last call: [fn |-> name, value |-> returned]

vars == <<input_image, color_picker, aspect_ratio, preview, download,
          last_update_time, clock, temp_file, ret>>

None == [kind |-> "None"]

Str(chars) == [kind |-> "str", chars |-> chars]

(***************************************************************************)
(* parse_color (lines 11-23)                                               *)
(***************************************************************************)

Digit == {"0", "1", "2", "3", "4", "5", "6", "7", "8", "9"}

HexLetter == {"a", "b", "c", "d", "e", "f", "A", "B", "C", "D", "E", "F"}

Whitespace == {" ", "\t", "\n"}

DigitValue(c) ==
    CASE c = "0" -> 0 [] c = "1" -> 1 [] c = "2" -> 2 [] c = "3" -> 3
      [] c = "4" -> 4 [] c = "5" -> 5 [] c = "6" -> 6 [] c = "7" -> 7
      [] c = "8" -> 8 [] c = "9" -> 9

HexValue(c) ==
    CASE c \in Digit -> DigitValue(c)
      [] c \in {"a", "A"} -> 10 [] c \in {"b", "B"} -> 11
      [] c \in {"c", "C"} -> 12 [] c \in {"d", "D"} -> 13
      [] c \in {"e", "E"} -> 14 [] c \in {"f", "F"} -> 15

\* The character at 1-based position i of s, "" past either end.
At(s, i) == IF i >= 1 /\ i <= Len(s) THEN s[i] ELSE ""

\* The first position at or after i whose character is not in class.
RECURSIVE SkipWhile(_, _, _)
SkipWhile(s, i, class) ==
    IF At(s, i) \in class THEN SkipWhile(s, i + 1, class) ELSE i

\* \d+\.?\d* at position i: the position after the match, 0 for no match.
\* The greedy match is the only one that can be followed by what the
\* pattern asks for next (a comma, or nothing), so no backtracking is lost.
MatchNumber(s, i) ==
    LET j == SkipWhile(s, i, Digit)
        k == IF At(s, j) = "." THEN j + 1 ELSE j
    IN  IF j = i THEN 0 ELSE SkipWhile(s, k, Digit)

\* re.match(r'rgba?\((\d+\.?\d*),\s*(\d+\.?\d*),\s*(\d+\.?\d*)', s), read
\* from left to right.  A position is 0 once the pattern has failed.

\* rgba?\( at the start: the position after the bracket.
MatchOpen(s) ==
    IF Len(s) >= 4 /\ SubSeq(s, 1, 4) = <<"r", "g", "b", "(">> THEN 5
    ELSE IF Len(s) >= 5 /\ SubSeq(s, 1, 5) = <<"r", "g", "b", "a", "(">> THEN 6
    ELSE 0

\* (\d+\.?\d*) at position i, when the pattern has come that far.
MatchGroup(s, i) == IF i = 0 THEN 0 ELSE MatchNumber(s, i)

\* ,\s* at position e.
MatchComma(s, e) ==
    IF e # 0 /\ At(s, e) = "," THEN SkipWhile(s, e + 1, Whitespace) ELSE 0

\* The three groups, or <<>> when the pattern does not match: group k
\* starts at bk and the position after it is ek.
Groups(s, b1, e1, b2, e2, b3, e3) ==
    IF e3 = 0 THEN <<>>
    ELSE <<SubSeq(s, b1, e1 - 1), SubSeq(s, b2, e2 - 1), SubSeq(s, b3, e3 - 1)>>

MatchFrom5(s, b1, e1, b2, e2, b3) ==
    Groups(s, b1, e1, b2, e2, b3, MatchGroup(s, b3))

MatchFrom4(s, b1, e1, b2, e2) == MatchFrom5(s, b1, e1, b2, e2, MatchComma(s, e2))

MatchFrom3(s, b1, e1, b2) == MatchFrom4(s, b1, e1, b2, MatchGroup(s, b2))

MatchFrom2(s, b1, e1) == MatchFrom3(s, b1, e1, MatchComma(s, e1))

MatchFrom1(s, b1) == MatchFrom2(s, b1, MatchGroup(s, b1))

rgba_match(s) == MatchFrom1(s, MatchOpen(s))

RECURSIVE DecimalValue(_)
DecimalValue(ds) ==
    IF ds = <<>> THEN 0
    ELSE 10 * DecimalValue(SubSeq(ds, 1, Len(ds) - 1)) + DigitValue(ds[Len(ds)])

\* int(float(x)) for a group x = digits [ "." digits ]: float(x) is exact
\* in its integer part for the lengths modelled, and int() truncates.
IntOfFloat(x) == DecimalValue(SubSeq(x, 1, SkipWhile(x, 1, Digit) - 1))

\* color_str[i:i+2] for a 0-based i: the slice is cut at the end of the
\* string and never raises.
Slice2(s, i) ==
    SubSeq(s, i + 1, IF i + 2 <= Len(s) THEN i + 2 ELSE Len(s))

\* t without its leading and trailing whitespace.
StripWs(t) ==
    SubSeq(t, SkipWhile(t, 1, Whitespace),
           CHOOSE j \in 0..Len(t) :
              /\ j = 0 \/ t[j] \notin Whitespace
              /\ \A k \in (j + 1)..Len(t) : t[k] \in Whitespace)

\* int(t, 16) strips surrounding whitespace and takes one optional sign.
\* (A "0x" prefix or an underscore needs three characters to be valid, and
\* a slice has at most two.)  Int16Sign and Int16Digits take the stripped
\* text.
Int16Sign(u) == IF At(u, 1) = "-" THEN 0 - 1 ELSE 1

Int16Digits(u) == IF At(u, 1) \in {"+", "-"} THEN Tail(u) ELSE u

AllHex(ds) == ds # <<>> /\ \A i \in 1..Len(ds) : ds[i] \in Digit \cup HexLetter

\* Whether int(t, 16) returns, rather than raising ValueError.
Int16Valid(t) == AllHex(Int16Digits(StripWs(t)))

RECURSIVE Hex16Value(_)
Hex16Value(ds) ==
    IF ds = <<>> THEN 0
    ELSE 16 * Hex16Value(SubSeq(ds, 1, Len(ds) - 1)) + HexValue(ds[Len(ds)])

Int16(t) == Int16Sign(StripWs(t)) * Hex16Value(Int16Digits(StripWs(t)))

DefaultWhite == <<255, 255, 255>>

\* Line 17, for the groups of a match.
ParseGroups(g) == <<IntOfFloat(g[1]), IntOfFloat(g[2]), IntOfFloat(g[3])>>

\* Line 20: the generator raises ValueError at the first slice that is no
\* number in base 16, which line 22 turns into white.
ParseHex(s) ==
    IF \A k \in 1..3 : Int16Valid(Slice2(s, 2 * k - 1))
    THEN [k \in 1..3 |-> Int16(Slice2(s, 2 * k - 1))]
    ELSE DefaultWhite

\* Lines 15-21, for a str.
ParseChars(s) ==
    IF rgba_match(s) # <<>> THEN ParseGroups(rgba_match(s))
    ELSE IF At(s, 1) = "#" THEN ParseHex(s)
    ELSE DefaultWhite

\* For a value that is no str, re.match raises TypeError (line 22).
parse_color(color_str) ==
    IF color_str.kind # "str" THEN DefaultWhite ELSE ParseChars(color_str.chars)

(***************************************************************************)
(* Images.  The upload widget hands over a numpy array of shape            *)
(* (rows, columns, 3); ArrayAt is the element it holds at a row and a      *)
(* column.  PIL images are terms: size is (width, height).                 *)
(***************************************************************************)

NdArray(rows, cols, id) ==
    [kind |-> "ndarray", shape |-> <<rows, cols>>, id |-> id]

\* The three channel values of the array at (row, col): every position of
\* an array holds a different triple, so a misplaced pixel shows.
ArrayAt(a, row, col) == <<col, row, 100 + a.id>>

\* Image.fromarray(image.astype('uint8')), line 45: the size of a PIL image
\* is (columns, rows), and astype('uint8') keeps each channel modulo 256.
fromarray(a) ==
    [kind |-> "Image", size |-> <<a.shape[2], a.shape[1]>>,
     data |-> [op |-> "fromarray", array |-> a]]

\* An 'RGB' image stores 8 bits per channel: PIL clips an ink to 0..255.
Clip8(v) == IF v < 0 THEN 0 ELSE IF v > 255 THEN 255 ELSE v

\* Image.new('RGB', size, color), line 74.
ImageNew(size, color) ==
    [kind |-> "Image", size |-> size,
     data |-> [op |-> "new",
               color |-> <<Clip8(color[1]), Clip8(color[2]), Clip8(color[3])>>]]

\* new_image.paste(image, (x, y)), line 81: the canvas keeps its size.
ImagePaste(canvas, image, box) ==
    [canvas EXCEPT !.data = [op |-> "paste", base |-> canvas, im |-> image,
                             box |-> box]]

\* image.resize(new_size, Image.Resampling.LANCZOS), line 32.
ImageResize(image, new_size) ==
    [kind |-> "Image", size |-> new_size,
     data |-> [op |-> "resize", im |-> image, resample |-> "LANCZOS"]]

\* The pixel of an unresampled image at (x, y), 0 <= x < width and
\* 0 <= y < height.
RECURSIVE getpixel(_, _, _)
getpixel(im, x, y) ==
    CASE im.data.op = "fromarray" ->
            LET v == ArrayAt(im.data.array, y, x)
            IN  <<v[1] % 256, v[2] % 256, v[3] % 256>>
      [] im.data.op = "new" -> im.data.color
      [] im.data.op = "paste" ->
            LET src == im.data.im
                bx  == im.data.box
            IN  IF /\ bx[1] <= x /\ x < bx[1] + src.size[1]
                   /\ bx[2] <= y /\ y < bx[2] + src.size[2]
                THEN getpixel(src, x - bx[1], y - bx[2])
                ELSE getpixel(im.data.base, x, y)

(***************************************************************************)
(* resize_for_preview (lines 25-36)                                        *)
(***************************************************************************)

max_size == 800

Max(a, b) == IF a >= b THEN a ELSE b

\* ratio = min(max_size/width, max_size/height) is max_size over the larger
\* side; int(side * ratio) is computed here in exact arithmetic.  (The float
\* product can round below an exact integer for some sizes; for the sizes
\* of the model the Python expression gives these values.)  A resize to an
\* empty size raises inside the try and the image is returned as it is.
resize_for_preview(image) ==
    LET width  == image.size[1]
        height == image.size[2]
        m      == Max(width, height)
        new_size == <<(width * max_size) \div m, (height * max_size) \div m>>
    IN  IF width > max_size \/ height > max_size
        THEN IF new_size[1] = 0 \/ new_size[2] = 0
             THEN image
             ELSE ImageResize(image, new_size)
        ELSE image

(***************************************************************************)
(* add_borders (lines 38-95)                                               *)
(***************************************************************************)

INSTAGRAM_RATIOS ==
    ("1:1 (Square)" :> <<1, 1>>) @@ ("4:5 (Portrait)" :> <<4, 5>>)
      @@ ("16:9 (Landscape)" :> <<16, 9>>)

\* Faulty variants of new_size, which C3 and C5 tell apart: the comparison
\* of line 66 turned round; and a quotient rounded up where int() cuts.
new_size_turned(orig_width, orig_height, tr) ==
    IF orig_width * tr[2] < orig_height * tr[1]
    THEN <<orig_width, (orig_width * tr[2]) \div tr[1]>>
    ELSE <<(orig_height * tr[1]) \div tr[2], orig_height>>

new_size_rounded_up(orig_width, orig_height, tr) ==
    IF orig_width * tr[2] > orig_height * tr[1]
    THEN <<orig_width, (orig_width * tr[2]) \div tr[1] + 1>>
    ELSE <<(orig_height * tr[1]) \div tr[2] + 1, orig_height>>

\* Lines 59-71.  target_ratio_value and orig_ratio are floats in the code;
\* they are kept here as the exact fractions tr[1]/tr[2] and
\* orig_width/orig_height.  For image sides below 2^26 the float comparison
\* and the truncated float quotient and product agree with the exact ones.
new_size(orig_width, orig_height, tr) ==
    IF orig_width * tr[2] > orig_height * tr[1]
    THEN <<orig_width, (orig_width * tr[2]) \div tr[1]>>
    ELSE <<(orig_height * tr[1]) \div tr[2], orig_height>>

\* Lines 77-78.
paste_offset(canvas_size, orig_size) ==
    <<(canvas_size[1] - orig_size[1]) \div 2,
      (canvas_size[2] - orig_size[2]) \div 2>>

\* Lines 89-90: os.path.join(tempfile.gettempdir(), "processed_image.jpg").
temp_path == [kind |-> "str", dir |-> "gettempdir()", name |-> "processed_image.jpg"]

\* The content of the file at temp_path.
Absent == [kind |-> "absent"]

Partial == [kind |-> "partial"]

\* new_image.save(temp_path, format='JPEG', quality=100), line 91.
JpegOf(image) == [kind |-> "JPEG", quality |-> 100, image |-> image]

\* What save() can meet: it writes the file; or it fails to open it, and
\* the file is as it was; or it fails after opening it for writing (which
\* empties it), and the file is left cut short.  (A save that removes again
\* a file it had created leaves the file as "open_error" does.)
SaveOutcomes == {"ok", "open_error", "write_error"}

Pair(image, path) == [kind |-> "tuple", image |-> image, path |-> path]

\* Lines 44-81: the full-resolution canvas for an array with at least one
\* row, a colour string and a label of INSTAGRAM_RATIOS.
composite(image, border_color, aspect_ratio_) ==
    LET img   == fromarray(image)
        color == parse_color(border_color)
        size  == new_size(img.size[1], img.size[2],
                          INSTAGRAM_RATIOS[aspect_ratio_])
    IN  ImagePaste(ImageNew(size, color), img, paste_offset(size, img.size))

\* An outcome of a function body: the exception it raised ("" for none),
\* the value it returned, and the file it left.
Raised(exc, file) == [exc |-> exc, value |-> None, file |-> file]

Returned(value, file) == [exc |-> "", value |-> value, file |-> file]

\* A faulty variant of Finish, which C10 tells apart: the preview is saved
\* too.
Finish_saving_previews(new_image, is_preview, file, save) ==
    IF is_preview
    THEN Returned(Pair(resize_for_preview(new_image), None),
                  JpegOf(resize_for_preview(new_image)))
    ELSE IF save = "ok"
    THEN Returned(Pair(new_image, temp_path), JpegOf(new_image))
    ELSE Raised("OSError", IF save = "open_error" THEN file ELSE Partial)

\* Lines 83-92, for the canvas of lines 44-81.
Finish(new_image, is_preview, file, save) ==
    IF is_preview
    THEN Returned(Pair(resize_for_preview(new_image), None), file)
    ELSE IF save = "ok"
    THEN Returned(Pair(new_image, temp_path), JpegOf(new_image))
    ELSE Raised("OSError", IF save = "open_error" THEN file ELSE Partial)

\* The body of the try block, lines 40-92.
add_borders_try(image, border_color, aspect_ratio_, is_preview, file, save) ==
    IF image = None THEN Returned(Pair(None, None), file)
    ELSE IF aspect_ratio_ \notin DOMAIN INSTAGRAM_RATIOS
    THEN Raised("KeyError", file)                            \* line 58
    ELSE IF image.shape[1] = 0
    THEN Raised("ZeroDivisionError", file)                   \* line 63
    ELSE Finish(composite(image, border_color, aspect_ratio_), is_preview,
                file, save)

\* A faulty variant of Except, which C6 tells apart: only OSError is caught.
Except_OSError_only(r) ==
    IF r.exc = "OSError" THEN Returned(Pair(None, None), r.file) ELSE r

\* The except clause, lines 93-95: every exception becomes (None, None).
Except(r) == IF r.exc # "" THEN Returned(Pair(None, None), r.file) ELSE r

add_borders(image, border_color, aspect_ratio_, is_preview, file, save) ==
    Except(add_borders_try(image, border_color, aspect_ratio_, is_preview,
                           file, save))

(***************************************************************************)
(* The entry points (lines 97-130)                                         *)
(***************************************************************************)

\* update_interval = 0.1 seconds, in milliseconds.
update_interval == 100

\* The outcome of process_preview: what it returned or raised, the global
\* afterwards and the file afterwards.
PreviewOutcome(exc, value, last, file) ==
    [exc |-> exc, value |-> value, last_update_time |-> last, file |-> file]

\* Lines 114-118, for the outcome r of the call of add_borders: an
\* exception out of it is caught at line 116, after the global was set.
PreviewReturn(r, current_time) ==
    PreviewOutcome("", IF r.exc # "" THEN None ELSE r.value.image,
                   current_time, r.file)

\* A faulty variant of process_preview, which C1 tells apart: the global is
\* set before the gate is read, so a rejected request restarts the window.
process_preview_restamping(image, border_color, aspect_ratio_, current_time, last, file) ==
    IF current_time - last < update_interval
    THEN PreviewOutcome("", None, current_time, file)
    ELSE IF image = None
    THEN PreviewOutcome("", None, current_time, file)
    ELSE PreviewReturn(add_borders(image, border_color, aspect_ratio_, TRUE,
                                   file, "ok"), current_time)

\* process_preview at time current_time with the global at last.
\* (add_borders takes what a save would meet; in preview mode it does not
\* save.)
process_preview(image, border_color, aspect_ratio_, current_time, last, file) ==
    IF current_time - last < update_interval
    THEN PreviewOutcome("", None, last, file)
    ELSE IF image = None
    THEN PreviewOutcome("", None, current_time, file)
    ELSE PreviewReturn(add_borders(image, border_color, aspect_ratio_, TRUE,
                                   file, "ok"), current_time)

\* Lines 126-130, for the outcome r of the call of add_borders: an
\* exception out of it is caught at line 128.
DownloadReturn(r) == Returned(IF r.exc # "" THEN None ELSE r.value.path, r.file)

process_download(image, border_color, aspect_ratio_, file, save) ==
    IF image = None
    THEN Returned(None, file)
    ELSE DownloadReturn(add_borders(image, border_color, aspect_ratio_, FALSE,
                                    file, save))

(***************************************************************************)
(* The interface (lines 132-189): the values the widgets can take.         *)
(***************************************************************************)

HexWhite == Str(<<"#", "F", "F", "F", "F", "F", "F">>)

HexRed == Str(<<"#", "F", "F", "0", "0", "0", "0">>)

RatioChoices == {"1:1 (Square)", "4:5 (Portrait)", "16:9 (Landscape)"}

\* The first reading of the clock: the process starts long after the epoch.
StartTime == 1000

\* The clock is followed for this long after the start.
MaxElapsed == 200

TickSteps == {update_interval - 1, update_interval}

\* The upload: a 1000x500 image, which a preview scales down.
Uploads == {NdArray(500, 1000, 2)}

PickerColors == {HexWhite, HexRed}

\* The last call: the function, the value it returned, the exception that
\* left it ("" for none) and what its save met ("" when it made none).
Call(fn, value, exc, save) ==
    [fn |-> fn, value |-> value, exc |-> exc, save |-> save]

NoCall == Call("", None, "", "")

Init ==
    /\ input_image = None
    /\ color_picker = HexWhite
    /\ aspect_ratio = "1:1 (Square)"
    /\ preview = None
    /\ download = None
    /\ last_update_time = 0
    /\ clock = StartTime
    /\ temp_file = Absent
    /\ ret = NoCall

\* Time passes.
Tick ==
    /\ \E d \in TickSteps :
          /\ clock + d <= StartTime + MaxElapsed
          /\ clock' = clock + d
    /\ UNCHANGED <<input_image, color_picker, aspect_ratio, preview, download,
                   last_update_time, temp_file, ret>>

\* What a run of process_preview with outcome r does to the interface:
\* its result goes to the preview, None leaving the preview as it is.
PreviewEffect(r) ==
    /\ last_update_time' = r.last_update_time
    /\ temp_file' = r.file
    /\ ret' = Call("process_preview", r.value, r.exc, "")
    /\ preview' = IF r.value = None THEN preview ELSE r.value
    /\ UNCHANGED <<download, clock>>

\* A change event (lines 166-172): process_preview runs on the widgets'
\* values.
PreviewEvent(image, color, ratio) ==
    PreviewEffect(process_preview(image, color, ratio, clock,
                                  last_update_time, temp_file))

ChangeImage ==
    \E image \in Uploads \cup {None} :
        /\ image # input_image
        /\ input_image' = image
        /\ UNCHANGED <<color_picker, aspect_ratio>>
        /\ PreviewEvent(image, color_picker, aspect_ratio)

ChangeColor ==
    \E color \in PickerColors :
        /\ color # color_picker
        /\ color_picker' = color
        /\ UNCHANGED <<input_image, aspect_ratio>>
        /\ PreviewEvent(input_image, color, aspect_ratio)

ChangeRatio ==
    \E ratio \in RatioChoices :
        /\ ratio # aspect_ratio
        /\ aspect_ratio' = ratio
        /\ UNCHANGED <<input_image, color_picker>>
        /\ PreviewEvent(input_image, color_picker, ratio)

\* What a run of process_download with outcome r does to the interface.
DownloadEffect(r, save) ==
    /\ temp_file' = r.file
    /\ ret' = Call("process_download", r.value, r.exc, save)
    /\ download' = IF r.value = None THEN download ELSE r.value
    /\ UNCHANGED <<input_image, color_picker, aspect_ratio, preview,
                   last_update_time, clock>>

\* The "Generate Download" button (lines 175-180).  With no image loaded
\* nothing is saved, whatever a save would meet.
DownloadClick ==
    \E save \in IF input_image = None THEN {""} ELSE SaveOutcomes :
        DownloadEffect(process_download(input_image, color_picker,
                                        aspect_ratio, temp_file, save), save)

\* The "Clear" button (lines 183-189): clear() empties the image, the
\* preview, the download and the colour picker.  Whether the host then
\* raises change events for the widgets it emptied is the host's choice;
\* when it does (fire), process_preview runs on the emptied values.
ClearEffect(fire, r) ==
    /\ input_image' = None
    /\ color_picker' = None
    /\ preview' = None
    /\ download' = None
    /\ last_update_time' = IF fire THEN r.last_update_time ELSE last_update_time
    /\ temp_file' = IF fire THEN r.file ELSE temp_file
    /\ ret' = IF fire THEN Call("process_preview", r.value, r.exc, "")
              ELSE Call("clear", None, "", "")
    /\ UNCHANGED <<aspect_ratio, clock>>

ClearClick ==
    \E fire \in BOOLEAN :
        ClearEffect(fire, process_preview(None, None, aspect_ratio, clock,
                                          last_update_time, temp_file))

Next ==
    \/ Tick
    \/ ChangeImage
    \/ ChangeColor
    \/ ChangeRatio
    \/ DownloadClick
    \/ ClearClick

Spec == Init /\ [][Next]_vars

(***************************************************************************)
(* Direct calls.  SpecCalls draws the arguments of one call of             *)
(* add_borders, process_preview or process_download from bounded sets      *)
(* (they arrive in the widgets' values) and makes the call; SpecParse does *)
(* the same for parse_color.                                               *)
(***************************************************************************)

MaxWidth == 16

MaxHeight == 9

\* Arrays of 0..MaxHeight rows and 1..MaxWidth columns.
CallImages == {NdArray(h, w, 1) : h \in 0..MaxHeight, w \in 1..MaxWidth}

Rgb300 == Str(<<"r", "g", "b", "(", "3", "0", "0", ",", "0", ",", "0", ")">>)

CallColors == {HexWhite, Rgb300, None}

\* The three labels of the radio, and one that INSTAGRAM_RATIOS lacks.
CallRatios == RatioChoices \cup {"9:16 (Story)"}

InitCalls ==
    /\ input_image \in CallImages \cup {None}
    /\ color_picker \in CallColors
    /\ aspect_ratio \in CallRatios
    /\ preview = None
    /\ download = None
    /\ last_update_time \in {0, StartTime}
    /\ clock = StartTime
    /\ temp_file = Absent
    /\ ret = NoCall

AddBordersEffect(r, save) ==
    /\ ret' = Call("add_borders", r.value, r.exc, save)
    /\ temp_file' = r.file
    /\ UNCHANGED <<input_image, color_picker, aspect_ratio, preview, download,
                   last_update_time, clock>>

CallAddBorders ==
    /\ ret = NoCall
    /\ \E is_preview \in BOOLEAN :
          \E save \in IF is_preview THEN {""} ELSE SaveOutcomes :
              AddBordersEffect(add_borders(input_image, color_picker,
                                           aspect_ratio, is_preview,
                                           temp_file, save), save)

ProcessPreviewEffect(r) ==
    /\ ret' = Call("process_preview", r.value, r.exc, "")
    /\ last_update_time' = r.last_update_time
    /\ temp_file' = r.file
    /\ UNCHANGED <<input_image, color_picker, aspect_ratio, preview, download,
                   clock>>

CallProcessPreview ==
    /\ ret = NoCall
    /\ ProcessPreviewEffect(process_preview(input_image, color_picker,
                                            aspect_ratio, clock,
                                            last_update_time, temp_file))

ProcessDownloadEffect(r, save) ==
    /\ ret' = Call("process_download", r.value, r.exc, save)
    /\ temp_file' = r.file
    /\ UNCHANGED <<input_image, color_picker, aspect_ratio, preview, download,
                   last_update_time, clock>>

CallProcessDownload ==
    /\ ret = NoCall
    /\ \E save \in SaveOutcomes :
          ProcessDownloadEffect(process_download(input_image, color_picker,
                                                 aspect_ratio, temp_file,
                                                 save), save)

NextCalls ==
    \/ CallAddBorders
    \/ CallProcessPreview
    \/ CallProcessDownload

SpecCalls == InitCalls /\ [][NextCalls]_vars

\* Strings for parse_color: "#" and up to MaxHexLen characters of HexChars;
\* rgb( or rgba(, three numbers, their separators and an ending; and some
\* that are neither.
MaxHexLen == 6

HexChars == {"F", "0", "g", "-"}

HexInputs ==
    {Str(<<"#">> \o t) : t \in UNION {[1..n -> HexChars] : n \in 0..MaxHexLen}}

NumTokens ==
    {<<"1", "0">>, <<"2", "0">>, <<"3", "0">>, <<"3", "0", "0">>,
     <<"2", ".", "5">>}

RgbInputs ==
    {Str(pre \o n1 \o sep \o n2 \o sep \o n3 \o tail) :
        pre \in {<<"r", "g", "b", "(">>, <<"r", "g", "b", "a", "(">>},
        n1 \in NumTokens, n2 \in NumTokens, n3 \in NumTokens,
        sep \in {<<",">>, <<",", " ">>},
        tail \in {<<")">>, <<",", "0", ".", "5", ")">>}}

Garbage == Str(<<"g", "a", "r", "b", "a", "g", "e">>)

ParseInputs == HexInputs \cup RgbInputs \cup {Garbage, Str(<<>>), None}

InitParse ==
    /\ input_image = None
    /\ color_picker \in ParseInputs
    /\ aspect_ratio = "1:1 (Square)"
    /\ preview = None
    /\ download = None
    /\ last_update_time = 0
    /\ clock = StartTime
    /\ temp_file = Absent
    /\ ret = NoCall

CallParseColor ==
    /\ ret = NoCall
    /\ ret' = Call("parse_color", parse_color(color_picker), "", "")
    /\ UNCHANGED <<input_image, color_picker, aspect_ratio, preview, download,
                   last_update_time, clock, temp_file>>

NextParse == CallParseColor

SpecParse == InitParse /\ [][NextParse]_vars

(***************************************************************************)
(* The claims.                                                             *)
(***************************************************************************)

\* A step in which process_preview ran.
PreviewStep ==
    \/ ChangeImage
    \/ ChangeColor
    \/ ChangeRatio
    \/ ClearClick /\ ret'.fn = "process_preview"

\* What the preview of the widgets' values is: the canvas of add_borders in
\* preview mode.
PreviewOf(image, color, ratio) ==
    add_borders(image, color, ratio, TRUE, Absent, "ok").value.image

\* C1: the gate of process_preview.  A preview request made less than
\* 100 ms after the last accepted one returns None and leaves
\* last_update_time as it was; one made 100 ms or more after it sets
\* last_update_time to its own time and returns what the compositor gives
\* for its arguments.  So last_update_time only ever moves forward by 100 ms
\* or more: accepted requests are at least 100 ms apart and a rejected one
\* does not move the window.
C1_DebounceGate ==
    [][/\ PreviewStep =>
            IF clock - last_update_time < 100
            THEN /\ ret'.value = None
                 /\ last_update_time' = last_update_time
            ELSE /\ last_update_time' = clock
                 /\ ret'.value = PreviewOf(input_image', color_picker',
                                           aspect_ratio')
       /\ last_update_time' # last_update_time =>
            last_update_time' - last_update_time >= 100]_vars

\* A request with an image loaded was rejected, 1..99 ms after a request
\* that was accepted later than the first one.
C1_Witness ==
    /\ ret.fn = "process_preview"
    /\ ret.value = None
    /\ input_image # None
    /\ last_update_time > StartTime
    /\ clock - last_update_time \in 1..99

\* C2: after a change made to a widget while an image is loaded, the
\* preview shown is the composite of the widgets' values as they now are
\* (the changes may stop there).
C2_PreviewIsCurrent ==
    [][(PreviewStep /\ input_image # None /\ input_image' # None) =>
          preview' = PreviewOf(input_image', color_picker', aspect_ratio')]_vars

\* The size and the label of the call made, under SpecCalls.
ArgWidth == input_image.shape[2]

ArgHeight == input_image.shape[1]

ArgRatio == INSTAGRAM_RATIOS[aspect_ratio]

\* add_borders was called and returned a canvas.
GotCanvas == ret.fn = "add_borders" /\ ret.value.image # None

Abs(n) == IF n < 0 THEN 0 - n ELSE n

\* C3: the canvas (W, H) has the target ratio to within integer rounding,
\* |W*hu - H*wu| < max(wu, hu); it keeps the width and is floor(w*hu/wu)
\* high when w*hu > h*wu, and keeps the height and is floor(h*wu/hu) wide
\* otherwise.
C3_CanvasRatio ==
    GotCanvas =>
        LET W  == ret.value.image.size[1]
            H  == ret.value.image.size[2]
            wu == ArgRatio[1]
            hu == ArgRatio[2]
        IN  /\ Abs(W * hu - H * wu) < Max(wu, hu)
            /\ IF ArgWidth * hu > ArgHeight * wu
               THEN W = ArgWidth /\ H = (ArgWidth * hu) \div wu
               ELSE H = ArgHeight /\ W = (ArgHeight * wu) \div hu

\* A 16:9 canvas whose sides are not exactly in the ratio.
C3_Witness ==
    /\ GotCanvas
    /\ aspect_ratio = "16:9 (Landscape)"
    /\ ret.value.image.size[1] * 9 # ret.value.image.size[2] * 16

\* C4: on the canvas returned, the original sits at
\* ((W - w) \div 2, (H - h) \div 2), inside the canvas; every pixel inside
\* that rectangle is the source's and every pixel outside it is the parsed
\* border colour.  A 1000x500 image with "1:1 (Square)" gives a 1000x1000
\* canvas with the original at (0, 250).
C4_Pixels ==
    /\ composite(NdArray(500, 1000, 2), HexWhite, "1:1 (Square)").size
          = <<1000, 1000>>
    /\ composite(NdArray(500, 1000, 2), HexWhite, "1:1 (Square)").data.box
          = <<0, 250>>
    /\ GotCanvas =>
          LET canvas  == ret.value.image
              W       == canvas.size[1]
              H       == canvas.size[2]
              paste_x == (W - ArgWidth) \div 2
              paste_y == (H - ArgHeight) \div 2
          IN  /\ paste_x >= 0 /\ paste_x + ArgWidth <= W
              /\ paste_y >= 0 /\ paste_y + ArgHeight <= H
              /\ \A x \in 0..(W - 1), y \in 0..(H - 1) :
                    getpixel(canvas, x, y) =
                        IF /\ paste_x <= x /\ x < paste_x + ArgWidth
                           /\ paste_y <= y /\ y < paste_y + ArgHeight
                        THEN ArrayAt(input_image, y - paste_y, x - paste_x)
                        ELSE parse_color(color_picker)

\* What C4 says, for the colours that parse_color gives within 0..255.
C4_PixelsInRange ==
    (\A k \in 1..3 : parse_color(color_picker)[k] \in 0..255) => C4_Pixels

\* C5: a source already in the target ratio (w*hu = h*wu) gets a canvas of
\* its own size, pasted at (0, 0).
C5_Idempotent ==
    (GotCanvas /\ ArgWidth * ArgRatio[2] = ArgHeight * ArgRatio[1]) =>
        /\ ret.value.image.size = <<ArgWidth, ArgHeight>>
        /\ ret.value.image.data.box = <<0, 0>>

\* A 16x9 source with "16:9 (Landscape)".
C5_Witness ==
    /\ GotCanvas
    /\ aspect_ratio = "16:9 (Landscape)"
    /\ ArgWidth = 16
    /\ ArgHeight = 9

\* The call cannot succeed: no image, a label that is not one of the three,
\* an image of no height, or a save that fails.
FailureCase ==
    \/ input_image = None
    \/ aspect_ratio \notin RatioChoices
    \/ input_image.shape[1] = 0
    \/ ret.save \in {"open_error", "write_error"}

\* C6: no call of add_borders, process_preview or process_download lets an
\* exception out; in a failure case add_borders returns (None, None) and
\* the two entry points return None.
C6_FailurePolicy ==
    ret.fn # "" =>
        /\ ret.exc = ""
        /\ FailureCase =>
              ret.value = IF ret.fn = "add_borders" THEN Pair(None, None)
                          ELSE None

\* process_download met a save that failed while writing, for an image and
\* a label that are fine.
C6_Witness ==
    /\ ret.fn = "process_download"
    /\ ret.save = "write_error"
    /\ ret.value = None
    /\ input_image # None
    /\ input_image.shape[1] > 0
    /\ aspect_ratio \in RatioChoices

\* C7: a call of either entry point with no image returns None and leaves
\* last_update_time and the persisted file as they were.
C7_MissingImageNoEffect ==
    [][(\/ PreviewStep /\ input_image' = None
        \/ DownloadClick /\ input_image = None) =>
            /\ ret'.value = None
            /\ last_update_time' = last_update_time
            /\ temp_file' = temp_file]_vars

\* C8: parse_color returns three integers, each in 0..255; '#FF0000' gives
\* (255,0,0), 'rgba(10,20,30,0.5)' gives (10,20,30), 'garbage' gives white.
C8_RangeSafe ==
    ret.fn = "parse_color" =>
        /\ Len(ret.value) = 3
        /\ \A k \in 1..3 : ret.value[k] \in 0..255
        /\ color_picker = HexRed => ret.value = <<255, 0, 0>>
        /\ color_picker = Garbage => ret.value = <<255, 255, 255>>
        /\ color_picker = Str(<<"r", "g", "b", "a", "(", "1", "0", ",", "2", "0",
                                ",", "3", "0", ",", "0", ".", "5", ")">>)
              => ret.value = <<10, 20, 30>>

\* C9: for a string that starts with '#' and is no rgb(...) form: shorter
\* than 7 characters, or with a character at offsets 1..6 that is no
\* hexadecimal digit, it gives white; '#' and six hexadecimal digits give
\* the three bytes at offsets 1-2, 3-4, 5-6.
C9_HexFallback ==
    (/\ ret.fn = "parse_color"
     /\ color_picker # None
     /\ At(color_picker.chars, 1) = "#") =>
        LET s == color_picker.chars
        IN  IF \/ Len(s) < 7
               \/ \E i \in 2..7 : s[i] \notin Digit \cup HexLetter
            THEN ret.value = <<255, 255, 255>>
            ELSE ret.value = <<16 * HexValue(s[2]) + HexValue(s[3]),
                               16 * HexValue(s[4]) + HexValue(s[5]),
                               16 * HexValue(s[6]) + HexValue(s[7])>>

\* What C10 says of previews and of downloads that succeed: a preview
\* request returns no path and leaves the file alone; a download request
\* that succeeds returns the one path and leaves in the file the canvas of
\* its arguments at full size.
C10_PreviewsAndSuccesses ==
    /\ PreviewStep => temp_file' = temp_file /\ ret'.value # temp_path
    /\ (DownloadClick /\ ret'.value # None) =>
          /\ ret'.value = temp_path
          /\ temp_file' = JpegOf(composite(input_image, color_picker,
                                           aspect_ratio))
          /\ temp_file'.image.data.op = "paste"
          /\ temp_file'.image.size[1] >= input_image.shape[2]
          /\ temp_file'.image.size[2] >= input_image.shape[1]

\* C10 as first stated: a download request that fails before the save
\* leaves the file unchanged; and once a download request has succeeded
\* the file holds its composite until the next one succeeds.
C10_FileIsLastSuccess ==
    [][/\ C10_PreviewsAndSuccesses
       /\ (DownloadClick /\ ret'.save = "") => temp_file' = temp_file
       /\ (temp_file.kind = "JPEG" /\ ~(DownloadClick /\ ret'.value # None))
             => temp_file' = temp_file]_vars

\* C10 as amended: a download request that fails before the file is opened
\* for writing leaves it unchanged, and one that fails while the file is
\* written leaves it either unchanged or cut short; nothing else changes
\* the file but a download request that succeeds.
C10_Persistence ==
    [][/\ C10_PreviewsAndSuccesses
       /\ (DownloadClick /\ ret'.value = None) =>
             IF ret'.save = "write_error"
             THEN temp_file' \in {temp_file, Partial}
             ELSE temp_file' = temp_file
       /\ ~DownloadClick => temp_file' = temp_file]_vars

\* A preview, scaled down, was returned while the file holds a canvas at
\* full size from an earlier download.
C10_Witness ==
    /\ ret.fn = "process_preview"
    /\ ret.value # None
    /\ ret.value.size[1] <= max_size
    /\ temp_file.kind = "JPEG"
    /\ temp_file.image.size[1] > max_size

====
